---- MODULE Spec2Model ----
(***************************************************************************)
(* State-machine model of svelte-interval: the Interval class, the         *)
(* LimitedInterval subclass and the sync() controller, together with the    *)
(* host's periodic timers (setInterval / clearInterval) and the             *)
(* createSubscriber start/stop protocol.                                    *)
(*                                                                          *)
(* Timer firings are asynchronous steps of the host: any live timer may     *)
(* fire between two calls, and Fire runs the handler that was bound to the  *)
(* timer when it was created, to completion.                                *)
(***************************************************************************)
EXTENDS Integers, Sequences, FiniteSets, TLC

\* ---------------------------------------------------------------- bounds
NumIntervals == 3
MaxDuration == 1
MaxTickCount == 3
MaxVersion == 2
MaxLimit == 2
MaxSubscribers == 1
MaxCalls == 3
MaxLeaderCalls == 4

Intervals == 1..NumIntervals
Durations == 0..MaxDuration
Limits == -1..MaxLimit
HandleIds == 1..(2 * NumIntervals)

\* ----------------------------------------------------------------- state
VARIABLES
    phase,                \* per instance: "none" | "live" | "failed" (constructor threw)
    limited,              \* per instance: TRUE for a LimitedInterval
    duration_input,       \* per instance: [fn |-> is a producer, val |-> the number]
    is_active,            \* per instance: #is_active
    tick_count,           \* per instance: #tick_count
    version,              \* per instance: #version
    interval_id,          \* per instance: #interval_id (0 = no handle)
    run_func,             \* per instance: the current #run_func
    derived,              \* per instance: cache of the #interval derived
    max_ticks,            \* per instance: #max_ticks
    is_completed,         \* per instance: #is_completed
    completion_baseline,  \* per instance: #completion_baseline
    subscribers,          \* per instance: tracked readers held by createSubscriber
    has_update,           \* per instance: #update has been assigned
    stop_called,          \* per instance: history, stop() was called
    timers,               \* the host's live timers, keyed by handle id
    delay,                \* the reactive value a producer duration reads
    ctl,                  \* the controller returned by sync()
    notified,             \* instances whose #update ran in the last step
    calls,                \* calls made so far, counted when a budget is set
    budget,               \* the number of calls the specification allows (0 = any)
    host,                 \* setInterval calls / live timers cleared in the last step
    last                  \* the last operation, the instance it was called on, and
                          \* in h the handle that fired or the number passed in

ivars == <<phase, limited, duration_input, is_active, tick_count, version,
           interval_id, run_func, derived, max_ticks, is_completed,
           completion_baseline, subscribers, has_update, stop_called>>
vars == <<ivars, timers, delay, ctl, notified, host, last, calls, budget>>

\* --------------------------------------------------------------- helpers
Max(a, b) == IF a >= b THEN a ELSE b

\* The handler values a #run_func field or a host timer can hold.
BaseFn(i) == [tag |-> "base", self |-> i]
LimitedFn(i) == [tag |-> "limited", self |-> i]
LeaderFn == [tag |-> "leader", self |-> 0]
NoopFn == [tag |-> "noop", self |-> 0]

Op(o, i, h) == [op |-> o, i |-> i, h |-> h]
NoCalls == [set |-> 0, cleared |-> 0]

\* A duration input: a plain number, or a producer that reads `delay`.
Fixed(d) == [fn |-> FALSE, val |-> d]
Producer == [fn |-> TRUE, val |-> 0]
DurationSpecs == {Fixed(d) : d \in Durations} \cup {Producer}

\* Durations of either sign, for the operations that pass them through.
SignedDurations == -1..MaxDuration
SignedSpecs == {Fixed(d) : d \in SignedDurations} \cup {Producer}

\* Mutant: the duration keeps following the reactive value.
Resolve_always_reads(spec) == delay

\* typeof input === 'function' ? input() : input
Resolve(spec) == IF spec.fn THEN delay ELSE spec.val

\* #duration: the derived that resolves the duration input.
Duration(i) == Resolve(duration_input[i])

\* Mutant: the call of clearInterval is missing.
ClearInterval_missing(tm, id) == tm

\* clearInterval(id): drops the timer when the id names a live one.
ClearInterval(tm, id) == [h \in DOMAIN tm \ {id} |-> tm[h]]

\* Mutant: the timer is created without the duration.
SetInterval_zero_delay(tm, h, i, fn, d) ==
    [x \in DOMAIN tm \cup {h} |->
        IF x = h THEN [owner |-> i, fn |-> fn, delay |-> 0] ELSE tm[x]]

\* Mutant: a negative duration is raised to zero.
SetInterval_clamped(tm, h, i, fn, d) ==
    [x \in DOMAIN tm \cup {h} |->
        IF x = h THEN [owner |-> i, fn |-> fn, delay |-> Max(d, 0)] ELSE tm[x]]

\* setInterval(fn, d) of instance i, returning handle id h.
SetInterval(tm, h, i, fn, d) ==
    [x \in DOMAIN tm \cup {h} |->
        IF x = h THEN [owner |-> i, fn |-> fn, delay |-> d]
        ELSE tm[x]]

\* Mutant: the derived is recomputed on every read.
Stale_always(i) == TRUE

\* Mutant: the derived counts as computed before its first evaluation.
Stale_assumed_computed(i) ==
    \/ derived[i].version # version[i]
    \/ derived[i].duration # Duration(i)

\* The #interval derived is recomputed on a read when it was never computed
\* or one of its dependencies (#version, #duration) has changed.
Stale(i) ==
    \/ ~derived[i].valid
    \/ derived[i].version # version[i]
    \/ derived[i].duration # Duration(i)

\* -------------------------------------------------------- tick handlers
\* Handlers are applied to a record of the fields they can change:
\* act = #is_active, tc = #tick_count, done = #is_completed,
\* ntf = the instances whose #update was invoked.
Fields == [act |-> is_active, tc |-> tick_count, done |-> is_completed, ntf |-> {}]

\* INTERNAL.increment_tick
increment_tick(s, i) == [s EXCEPT !.tc[i] = @ + 1]

\* INTERNAL.trigger_update / this.#update?.()
trigger_update(s, i) == IF has_update[i] THEN [s EXCEPT !.ntf = @ \cup {i}] ELSE s

\* Mutant: the handler counts without looking at #is_active.
run_func_base_ungated(s, i) == trigger_update(increment_tick(s, i), i)

\* Interval.#run_func
run_func_base(s, i) ==
    IF ~s.act[i] THEN s
    ELSE trigger_update(increment_tick(s, i), i)

\* The handler installed by the LimitedInterval constructor.
run_func_limited(s, i) ==
    IF s.done[i] THEN s
    ELSE IF ~s.act[i] THEN s
    ELSE LET s1 == trigger_update(increment_tick(s, i), i)
             ticksSinceBaseline == s1.tc[i] - completion_baseline[i]
         IN IF ticksSinceBaseline >= max_ticks[i]
            THEN [s1 EXCEPT !.done[i] = TRUE, !.act[i] = FALSE]
            ELSE s1

\* original_func.call(synced_interval) for a handler saved by sync().
call_original(s, fn) ==
    CASE fn.tag = "base" -> run_func_base(s, fn.self)
      [] fn.tag = "limited" -> run_func_limited(s, fn.self)
      [] OTHER -> s

\* Mutant: the leader's handler runs the leader's own original handler only.
broadcast_leader_only(s, k) == call_original(s, ctl.original_run_funcs[ctl.leader])

\* The loop of the leader's handler over intervals[k..].
RECURSIVE broadcast(_, _)
broadcast(s, k) ==
    IF k > Len(ctl.intervals) THEN s
    ELSE broadcast(call_original(s, ctl.original_run_funcs[ctl.intervals[k]]), k + 1)

\* The handler enable() installs on the leader.
run_func_leader(s) ==
    IF ~s.act[ctl.leader] THEN s
    ELSE broadcast(s, 1)

\* Invoking a handler value.
Call(s, fn) ==
    CASE fn.tag = "base" -> run_func_base(s, fn.self)
      [] fn.tag = "limited" -> run_func_limited(s, fn.self)
      [] fn.tag = "leader" -> run_func_leader(s)
      [] OTHER -> s

WithinTickBound(s) == \A i \in Intervals : s.tc[i] <= MaxTickCount

\* ------------------------------------------------- starting the interval
\* The handle setInterval returns to instance i: an id that names no live
\* timer. Ids are never reused by the host; giving every instance its own
\* pool keeps them distinct across instances without counting upwards.
Handles(i) == {2 * i - 1, 2 * i}
FreshId(tm, i) ==
    CHOOSE h \in Handles(i) :
        /\ h \notin DOMAIN tm
        /\ \A g \in Handles(i) : g \notin DOMAIN tm => h <= g

\* Mutant: the derived creates the new timer without clearing the old one.
EvalInterval_leaking(i, fn) ==
    IF Stale(i)
    THEN LET h == FreshId(timers, i)
         IN [timers |-> SetInterval(timers, h, i, fn, Duration(i)),
             interval_id |-> h,
             derived |-> [valid |-> TRUE, version |-> version[i], duration |-> Duration(i)],
             host |-> [set |-> 1, cleared |-> 0]]
    ELSE [timers |-> timers,
          interval_id |-> interval_id[i],
          derived |-> derived[i],
          host |-> NoCalls]

\* Evaluating the #interval derived of instance i whose handler is fn.
EvalInterval(i, fn) ==
    IF Stale(i)
    THEN LET cleared == ClearInterval(timers, interval_id[i])
             h == FreshId(cleared, i)
         IN [timers |-> SetInterval(cleared, h, i, fn, Duration(i)),
             interval_id |-> h,
             derived |-> [valid |-> TRUE, version |-> version[i], duration |-> Duration(i)],
             host |-> [set |-> 1,
                       cleared |-> IF interval_id[i] \in DOMAIN timers THEN 1 ELSE 0]]
    ELSE [timers |-> timers,
          interval_id |-> interval_id[i],
          derived |-> derived[i],
          host |-> NoCalls]

\* this.#subscribe(): inside a tracking context the first reader runs the
\* start callback, which assigns #update.
CanSubscribe(i, tracked) == tracked => subscribers[i] < MaxSubscribers
SubscribersAfter(i, tracked) == IF tracked THEN subscribers[i] + 1 ELSE subscribers[i]
HasUpdateAfter(i, tracked) == has_update[i] \/ (tracked /\ subscribers[i] = 0)

\* #kickoff_subscriptions of instance i, its handler being fn.
kickoff_subscriptions(i, fn, tracked) ==
    /\ CanSubscribe(i, tracked)
    /\ LET e == EvalInterval(i, fn) IN
        /\ timers' = e.timers
        /\ interval_id' = [interval_id EXCEPT ![i] = e.interval_id]
        /\ derived' = [derived EXCEPT ![i] = e.derived]
        /\ host' = e.host
    /\ subscribers' = [subscribers EXCEPT ![i] = SubscribersAfter(i, tracked)]
    /\ has_update' = [has_update EXCEPT ![i] = HasUpdateAfter(i, tracked)]

\* ------------------------------------------------------------------ Init
InitWith(m) ==
    /\ phase = [i \in Intervals |-> "none"]
    /\ limited = [i \in Intervals |-> FALSE]
    /\ duration_input = [i \in Intervals |-> Fixed(0)]
    /\ is_active = [i \in Intervals |-> TRUE]
    /\ tick_count = [i \in Intervals |-> 0]
    /\ version = [i \in Intervals |-> 0]
    /\ interval_id = [i \in Intervals |-> 0]
    /\ run_func = [i \in Intervals |-> BaseFn(i)]
    /\ derived = [i \in Intervals |-> [valid |-> FALSE, version |-> 0, duration |-> 0]]
    /\ max_ticks = [i \in Intervals |-> 0]
    /\ is_completed = [i \in Intervals |-> FALSE]
    /\ completion_baseline = [i \in Intervals |-> 0]
    /\ subscribers = [i \in Intervals |-> 0]
    /\ has_update = [i \in Intervals |-> FALSE]
    /\ stop_called = [i \in Intervals |-> FALSE]
    /\ timers = <<>>
    /\ delay = 0
    /\ ctl = [exists |-> FALSE, intervals |-> <<>>, leader |-> 0,
              original_run_funcs |-> <<>>, sync_active |-> FALSE]
    /\ notified = {}
    /\ host = NoCalls
    /\ last = Op("init", 0, 0)
    /\ calls = 0
    /\ budget = m

Init == InitWith(0)

\* A call made by the program's user: counted, and limited, under a budget.
Spend ==
    /\ budget > 0 => calls < budget
    /\ calls' = IF budget > 0 THEN calls + 1 ELSE calls
    /\ budget' = budget

\* A step of the host or a construction: never counted.
Free == UNCHANGED <<calls, budget>>

Live(i) == phase[i] = "live"

\* Writes the fields a handler run leaves behind.
Apply(s) ==
    /\ is_active' = s.act
    /\ tick_count' = s.tc
    /\ is_completed' = s.done
    /\ notified' = s.ntf

\* --------------------------------------------------------------- Interval
\* Mutant: only negative values of maxTicks are rejected.
Rejected_negative_only(maxTicks) == maxTicks < 0

\* The validation of maxTicks in the LimitedInterval constructor and setter.
Rejected(maxTicks) == maxTicks <= 0

\* new Interval(spec, {immediate}) / new LimitedInterval(spec, maxTicks, {immediate}):
\* the base constructor runs first (and starts the timer with the base handler
\* when immediate), then the subclass validates maxTicks and installs its handler.
Construct(i, lim, spec, maxTicks, immediate, tracked) ==
    /\ phase[i] = "none"
    /\ \A j \in Intervals : j < i => phase[j] # "none"
    /\ ~lim => maxTicks = 0
    /\ ~immediate => ~tracked
    /\ duration_input' = [duration_input EXCEPT ![i] = spec]
    /\ limited' = [limited EXCEPT ![i] = lim]
    /\ IF immediate
       THEN LET h == FreshId(timers, i) IN
            /\ timers' = SetInterval(timers, h, i, BaseFn(i), Resolve(spec))
            /\ interval_id' = [interval_id EXCEPT ![i] = h]
            /\ derived' = [derived EXCEPT ![i] =
                  [valid |-> TRUE, version |-> 0, duration |-> Resolve(spec)]]
            /\ subscribers' = [subscribers EXCEPT ![i] = IF tracked THEN 1 ELSE 0]
            /\ has_update' = [has_update EXCEPT ![i] = tracked]
            /\ host' = [set |-> 1, cleared |-> 0]
       ELSE /\ UNCHANGED <<timers, interval_id, derived, subscribers, has_update>>
            /\ host' = NoCalls
    /\ IF lim /\ Rejected(maxTicks)
       THEN /\ phase' = [phase EXCEPT ![i] = "failed"]
            /\ UNCHANGED <<max_ticks, run_func>>
       ELSE /\ phase' = [phase EXCEPT ![i] = "live"]
            /\ max_ticks' = [max_ticks EXCEPT ![i] = maxTicks]
            /\ run_func' = [run_func EXCEPT ![i] = IF lim THEN LimitedFn(i) ELSE BaseFn(i)]
    /\ notified' = {}
    /\ last' = Op(IF immediate THEN "construct_immediate" ELSE "construct", i, maxTicks)
    /\ Free
    /\ UNCHANGED <<is_active, tick_count, version, is_completed, completion_baseline,
                   stop_called, delay, ctl>>

\* get current / get tickCount
Read(i, tracked) ==
    /\ Live(i)
    /\ kickoff_subscriptions(i, run_func[i], tracked)
    /\ notified' = {}
    /\ last' = Op("read", i, 0)
    /\ Spend
    /\ UNCHANGED <<phase, limited, duration_input, is_active, tick_count, version,
                   run_func, max_ticks, is_completed, completion_baseline,
                   stop_called, delay, ctl>>

\* Mutant: pause() also clears the underlying timer.
Pause_clearing(i) ==
    /\ Live(i)
    /\ is_active' = [is_active EXCEPT ![i] = FALSE]
    /\ timers' = ClearInterval(timers, interval_id[i])
    /\ notified' = {}
    /\ host' = [set |-> 0, cleared |-> IF interval_id[i] \in DOMAIN timers THEN 1 ELSE 0]
    /\ last' = Op("pause", i, 0)
    /\ Spend
    /\ UNCHANGED <<phase, limited, duration_input, tick_count, version, interval_id,
                   run_func, derived, max_ticks, is_completed, completion_baseline,
                   subscribers, has_update, stop_called, delay, ctl>>

\* pause()
Pause(i) ==
    /\ Live(i)
    /\ is_active' = [is_active EXCEPT ![i] = FALSE]
    /\ notified' = {}
    /\ host' = NoCalls
    /\ last' = Op("pause", i, 0)
    /\ Spend
    /\ UNCHANGED <<phase, limited, duration_input, tick_count, version, interval_id,
                   run_func, derived, max_ticks, is_completed, completion_baseline,
                   subscribers, has_update, stop_called, timers, delay, ctl>>

\* Mutant: resume(true) only sets #is_active.
ResumePass_skipped(i) == [Fields EXCEPT !.act[i] = TRUE]

\* The body of resume(true) after the version bump: #is_active = true, then
\* one synchronous call of the current #run_func.
ResumePass(i) == Call([Fields EXCEPT !.act[i] = TRUE], run_func[i])

\* resume(immediate)
Resume(i, immediate) ==
    /\ Live(i)
    /\ IF immediate
       THEN /\ version[i] < MaxVersion
            /\ version' = [version EXCEPT ![i] = @ + 1]
            /\ LET s == ResumePass(i) IN
                /\ WithinTickBound(s)
                /\ Apply(s)
       ELSE /\ is_active' = [is_active EXCEPT ![i] = TRUE]
            /\ notified' = {}
            /\ UNCHANGED <<version, tick_count, is_completed>>
    /\ host' = NoCalls
    /\ last' = Op(IF immediate THEN "resume_immediate" ELSE "resume", i, 0)
    /\ Spend
    /\ UNCHANGED <<phase, limited, duration_input, interval_id, run_func, derived,
                   max_ticks, completion_baseline, subscribers, has_update,
                   stop_called, timers, delay, ctl>>

\* Mutant: the setter clears the timer itself.
SetDuration_eager(i, spec) ==
    /\ Live(i)
    /\ version[i] < MaxVersion
    /\ duration_input' = [duration_input EXCEPT ![i] = spec]
    /\ version' = [version EXCEPT ![i] = @ + 1]
    /\ timers' = ClearInterval(timers, interval_id[i])
    /\ notified' = {}
    /\ host' = [set |-> 0, cleared |-> IF interval_id[i] \in DOMAIN timers THEN 1 ELSE 0]
    /\ last' = Op(IF spec.fn THEN "set_duration_fn" ELSE "set_duration", i, spec.val)
    /\ Spend
    /\ UNCHANGED <<phase, limited, is_active, tick_count, interval_id, run_func,
                   derived, max_ticks, is_completed, completion_baseline, subscribers,
                   has_update, stop_called, delay, ctl>>

\* set duration(value)
SetDuration(i, spec) ==
    /\ Live(i)
    /\ version[i] < MaxVersion
    /\ duration_input' = [duration_input EXCEPT ![i] = spec]
    /\ version' = [version EXCEPT ![i] = @ + 1]
    /\ notified' = {}
    /\ host' = NoCalls
    /\ last' = Op(IF spec.fn THEN "set_duration_fn" ELSE "set_duration", i, spec.val)
    /\ Spend
    /\ UNCHANGED <<phase, limited, is_active, tick_count, interval_id, run_func,
                   derived, max_ticks, is_completed, completion_baseline, subscribers,
                   has_update, stop_called, timers, delay, ctl>>

\* stop()
Stop(i) ==
    /\ Live(i)
    /\ timers' = ClearInterval(timers, interval_id[i])
    /\ is_active' = [is_active EXCEPT ![i] = FALSE]
    /\ interval_id' = [interval_id EXCEPT ![i] = 0]
    /\ stop_called' = [stop_called EXCEPT ![i] = TRUE]
    /\ notified' = {}
    /\ host' = [set |-> 0, cleared |-> IF interval_id[i] \in DOMAIN timers THEN 1 ELSE 0]
    /\ last' = Op("stop", i, 0)
    /\ Spend
    /\ UNCHANGED <<phase, limited, duration_input, tick_count, version, run_func,
                   derived, max_ticks, is_completed, completion_baseline, subscribers,
                   has_update, delay, ctl>>

\* get isStopped
isStopped(i) == interval_id[i] = 0

\* Mutant: dispose() also resets the handle, as stop() does.
Dispose_marking_stopped(i) ==
    /\ Live(i)
    /\ timers' = ClearInterval(timers, interval_id[i])
    /\ interval_id' = [interval_id EXCEPT ![i] = 0]
    /\ notified' = {}
    /\ host' = [set |-> 0, cleared |-> IF interval_id[i] \in DOMAIN timers THEN 1 ELSE 0]
    /\ last' = Op("dispose", i, 0)
    /\ Spend
    /\ UNCHANGED <<phase, limited, duration_input, is_active, tick_count, version,
                   run_func, derived, max_ticks, is_completed, completion_baseline,
                   subscribers, has_update, stop_called, delay, ctl>>

\* [Symbol.dispose]()
Dispose(i) ==
    /\ Live(i)
    /\ timers' = ClearInterval(timers, interval_id[i])
    /\ notified' = {}
    /\ host' = [set |-> 0, cleared |-> IF interval_id[i] \in DOMAIN timers THEN 1 ELSE 0]
    /\ last' = Op("dispose", i, 0)
    /\ Spend
    /\ UNCHANGED <<ivars, delay, ctl>>

\* The teardown createSubscriber runs when a tracked reader goes away: the
\* stop callback returned by the start function runs when the last one does.
Teardown(i) ==
    /\ phase[i] # "none"
    /\ subscribers[i] > 0
    /\ subscribers' = [subscribers EXCEPT ![i] = @ - 1]
    /\ timers' = IF subscribers[i] = 1 THEN ClearInterval(timers, interval_id[i]) ELSE timers
    /\ notified' = {}
    /\ host' = [set |-> 0,
                cleared |-> IF subscribers[i] = 1 /\ interval_id[i] \in DOMAIN timers
                            THEN 1 ELSE 0]
    /\ last' = Op("teardown", i, 0)
    /\ Free
    /\ UNCHANGED <<phase, limited, duration_input, is_active, tick_count, version,
                   interval_id, run_func, derived, max_ticks, is_completed,
                   completion_baseline, has_update, stop_called, delay, ctl>>

\* The reactive value read by producer durations changes.
SetDelay(d) ==
    /\ d # delay
    /\ delay' = d
    /\ notified' = {}
    /\ host' = NoCalls
    /\ last' = Op("set_delay", 0, 0)
    /\ Spend
    /\ UNCHANGED <<ivars, timers, ctl>>

\* -------------------------------------------------------- LimitedInterval
\* Mutant: remainingTicks without the clamp at zero.
remainingTicks_unclamped(i) ==
    max_ticks[i] - (tick_count[i] - completion_baseline[i])

\* The value of get remainingTicks.
remainingTicks(i) ==
    LET ticksSinceBaseline == tick_count[i] - completion_baseline[i]
    IN Max(0, max_ticks[i] - ticksSinceBaseline)

\* get remainingTicks: reads this.tickCount, which starts the interval.
ReadRemaining(i, tracked) ==
    /\ Live(i)
    /\ limited[i]
    /\ kickoff_subscriptions(i, run_func[i], tracked)
    /\ notified' = {}
    /\ last' = Op("remainingTicks", i, 0)
    /\ Spend
    /\ UNCHANGED <<phase, limited, duration_input, is_active, tick_count, version,
                   run_func, max_ticks, is_completed, completion_baseline,
                   stop_called, delay, ctl>>

\* Mutant: reset() measures the limit from the first tick ever counted.
ResetBaseline_zero(i) == 0

\* The baseline reset() stores: the value of this.tickCount.
ResetBaseline(i) == tick_count[i]

\* Mutant: reset() starts the count again from zero.
ResetTicks_zeroed(i) == 0

\* reset() leaves the cumulative #tick_count alone.
ResetTicks(i) == tick_count[i]

\* reset()
Reset(i, tracked) ==
    /\ Live(i)
    /\ limited[i]
    /\ is_completed' = [is_completed EXCEPT ![i] = FALSE]
    /\ kickoff_subscriptions(i, run_func[i], tracked)
    /\ completion_baseline' = [completion_baseline EXCEPT ![i] = ResetBaseline(i)]
    /\ is_active' = [is_active EXCEPT ![i] = TRUE]
    /\ tick_count' = [tick_count EXCEPT ![i] = ResetTicks(i)]
    /\ notified' = {}
    /\ last' = Op(IF is_completed[i] THEN "reset_completed" ELSE "reset", i, 0)
    /\ Spend
    /\ UNCHANGED <<phase, limited, duration_input, version, run_func,
                   max_ticks, stop_called, delay, ctl>>

\* Mutant: a successful maxTicks write also moves the baseline to tickCount.
SetMaxTicks_rebasing(i, new_max) ==
    /\ Live(i)
    /\ limited[i]
    /\ IF Rejected(new_max)
       THEN UNCHANGED <<max_ticks, is_completed, completion_baseline>>
       ELSE /\ max_ticks' = [max_ticks EXCEPT ![i] = new_max]
            /\ is_completed' = [is_completed EXCEPT ![i] = FALSE]
            /\ completion_baseline' = [completion_baseline EXCEPT ![i] = tick_count[i]]
    /\ notified' = {}
    /\ host' = NoCalls
    /\ last' = Op(IF Rejected(new_max) THEN "set_maxTicks_throw" ELSE "set_maxTicks", i, new_max)
    /\ Spend
    /\ UNCHANGED <<phase, limited, duration_input, is_active, tick_count, version,
                   interval_id, run_func, derived, subscribers,
                   has_update, stop_called, timers, delay, ctl>>

\* set maxTicks(new_max)
SetMaxTicks(i, new_max) ==
    /\ Live(i)
    /\ limited[i]
    /\ IF Rejected(new_max)
       THEN UNCHANGED <<max_ticks, is_completed>>
       ELSE /\ max_ticks' = [max_ticks EXCEPT ![i] = new_max]
            /\ is_completed' = [is_completed EXCEPT ![i] = FALSE]
    /\ notified' = {}
    /\ host' = NoCalls
    /\ last' = Op(IF Rejected(new_max) THEN "set_maxTicks_throw" ELSE "set_maxTicks", i, new_max)
    /\ Spend
    /\ UNCHANGED <<phase, limited, duration_input, is_active, tick_count, version,
                   interval_id, run_func, derived, completion_baseline, subscribers,
                   has_update, stop_called, timers, delay, ctl>>

\* ------------------------------------------------------------------ sync
\* Mutant: the scan lets a later member with an equal duration take over.
RECURSIVE FindLeader_last_wins(_, _, _)
FindLeader_last_wins(durs, k, best) ==
    IF k > Len(durs) THEN best
    ELSE FindLeader_last_wins(durs, k + 1, IF durs[k] <= durs[best] THEN k ELSE best)

\* The leader scan of sync(): index of the leader in the argument list.
RECURSIVE FindLeader(_, _, _)
FindLeader(durs, k, best) ==
    IF k > Len(durs) THEN best
    ELSE FindLeader(durs, k + 1, IF durs[k] < durs[best] THEN k ELSE best)

\* Mutant: force_restart leaves #version as it is.
force_restart_skipped(i) == version[i]

\* INTERNAL.force_restart: the value it gives #version.
force_restart(i) == version[i] + 1

\* Argument lists of sync(): distinct live instances, in any order.
MemberSeqs ==
    {m \in UNION {[1..n -> Intervals] : n \in 1..NumIntervals} :
        /\ \A k \in DOMAIN m : Live(m[k])
        /\ \A k1, k2 \in DOMAIN m : k1 # k2 => m[k1] # m[k2]}

Members == {ctl.intervals[k] : k \in DOMAIN ctl.intervals}

\* Mutant: a new controller starts out enabled.
InitialSyncActive_on == TRUE

\* let sync_active = $state(false)
InitialSyncActive == FALSE

\* sync(...intervals) with at least one interval.
Sync(m) ==
    /\ ~ctl.exists
    /\ m \in MemberSeqs
    /\ LET durs == [k \in DOMAIN m |-> Duration(m[k])] IN
        ctl' = [exists |-> TRUE,
                intervals |-> m,
                leader |-> m[FindLeader(durs, 1, 1)],
                original_run_funcs |-> [i \in {m[k] : k \in DOMAIN m} |-> run_func[i]],
                sync_active |-> InitialSyncActive]
    /\ notified' = {}
    /\ host' = NoCalls
    /\ last' = Op("sync", 0, 0)
    /\ Spend
    /\ UNCHANGED <<ivars, timers, delay>>

\* sync() with no interval throws and returns no controller.
SyncEmpty ==
    /\ ~ctl.exists
    /\ notified' = {}
    /\ host' = NoCalls
    /\ last' = Op("sync_throw", 0, 0)
    /\ Spend
    /\ UNCHANGED <<ivars, timers, delay, ctl>>

\* Mutant: enable() does not look at sync_active.
AlreadyEnabled_ignored == FALSE

\* enable(): if (sync_active) return
AlreadyEnabled == ctl.sync_active

\* controller.enable()
Enable(tracked) ==
    /\ ctl.exists
    /\ IF AlreadyEnabled
       THEN /\ ~tracked
            /\ host' = NoCalls
            /\ UNCHANGED <<ivars, timers, ctl>>
       ELSE /\ version[ctl.leader] < MaxVersion
            /\ ctl' = [ctl EXCEPT !.sync_active = TRUE]
            /\ run_func' = [i \in Intervals |->
                  IF i = ctl.leader THEN LeaderFn
                  ELSE IF i \in Members THEN NoopFn
                  ELSE run_func[i]]
            /\ kickoff_subscriptions(ctl.leader, LeaderFn, tracked)
            /\ version' = [version EXCEPT ![ctl.leader] = force_restart(ctl.leader)]
            /\ UNCHANGED <<phase, limited, duration_input, is_active, tick_count,
                           max_ticks, is_completed, completion_baseline, stop_called>>
    /\ notified' = {}
    /\ last' = Op(IF AlreadyEnabled THEN "enable_noop" ELSE "enable", ctl.leader, 0)
    /\ Spend
    /\ UNCHANGED delay

\* Mutant: disable() also clears the completion of the members.
Disable_clearing_completion ==
    /\ ctl.exists
    /\ IF ~ctl.sync_active
       THEN UNCHANGED <<ivars, ctl>>
       ELSE /\ \A i \in Members : version[i] < MaxVersion
            /\ ctl' = [ctl EXCEPT !.sync_active = FALSE]
            /\ run_func' = [i \in Intervals |->
                  IF i \in Members THEN ctl.original_run_funcs[i] ELSE run_func[i]]
            /\ version' = [i \in Intervals |->
                  IF i \in Members THEN force_restart(i) ELSE version[i]]
            /\ is_completed' = [i \in Intervals |->
                  IF i \in Members THEN FALSE ELSE is_completed[i]]
            /\ UNCHANGED <<phase, limited, duration_input, is_active, tick_count,
                           interval_id, derived, max_ticks,
                           completion_baseline, subscribers, has_update, stop_called>>
    /\ notified' = {}
    /\ host' = NoCalls
    /\ last' = Op(IF ctl.sync_active THEN "disable" ELSE "disable_noop", ctl.leader, 0)
    /\ Spend
    /\ UNCHANGED <<timers, delay>>

\* controller.disable()
Disable ==
    /\ ctl.exists
    /\ IF ~ctl.sync_active
       THEN UNCHANGED <<ivars, ctl>>
       ELSE /\ \A i \in Members : version[i] < MaxVersion
            /\ ctl' = [ctl EXCEPT !.sync_active = FALSE]
            /\ run_func' = [i \in Intervals |->
                  IF i \in Members THEN ctl.original_run_funcs[i] ELSE run_func[i]]
            /\ version' = [i \in Intervals |->
                  IF i \in Members THEN force_restart(i) ELSE version[i]]
            /\ UNCHANGED <<phase, limited, duration_input, is_active, tick_count,
                           interval_id, derived, max_ticks, is_completed,
                           completion_baseline, subscribers, has_update, stop_called>>
    /\ notified' = {}
    /\ host' = NoCalls
    /\ last' = Op(IF ctl.sync_active THEN "disable" ELSE "disable_noop", ctl.leader, 0)
    /\ Spend
    /\ UNCHANGED <<timers, delay>>

\* ------------------------------------------------------------ host timers
\* A live timer fires: the handler bound when it was created runs to completion.
Fire(h) ==
    /\ h \in DOMAIN timers
    /\ LET s == Call(Fields, timers[h].fn) IN
        /\ WithinTickBound(s)
        /\ Apply(s)
    /\ host' = NoCalls
    /\ last' = Op("fire", timers[h].owner, h)
    /\ Free
    /\ UNCHANGED <<phase, limited, duration_input, version, interval_id, run_func,
                   derived, max_ticks, completion_baseline, subscribers, has_update,
                   stop_called, timers, delay, ctl>>

\* -------------------------------------------------------- specifications
FixedSpecs == {Fixed(d) : d \in Durations}
AllBuilt(S) == \A i \in S : phase[i] # "none"

\* One instance, every operation of Interval and LimitedInterval, reads inside
\* and outside a tracking context, fixed durations.
Solo == {1}
Next ==
    \/ \E i \in Solo, lim \in BOOLEAN, spec \in FixedSpecs, mt \in Limits,
          imm \in BOOLEAN, tr \in BOOLEAN : Construct(i, lim, spec, mt, imm, tr)
    \/ \E i \in Solo, tr \in BOOLEAN : Read(i, tr)
    \/ \E i \in Solo : Pause(i)
    \/ \E i \in Solo, imm \in BOOLEAN : Resume(i, imm)
    \/ \E i \in Solo, spec \in FixedSpecs : SetDuration(i, spec)
    \/ \E i \in Solo : Stop(i)
    \/ \E i \in Solo : Dispose(i)
    \/ \E i \in Solo : Teardown(i)
    \/ \E i \in Solo, tr \in BOOLEAN : ReadRemaining(i, tr)
    \/ \E i \in Solo, tr \in BOOLEAN : Reset(i, tr)
    \/ \E i \in Solo, mt \in Limits : SetMaxTicks(i, mt)
    \/ \E h \in HandleIds : Fire(h)

Spec == Init /\ [][Next]_vars

\* Two instances and a controller: both are constructed first, then up to
\* MaxCalls calls are made on them and on the controller in any order, the
\* timers firing in between.
Pair == {1, 2}
NextSync ==
    \/ \E i \in Pair, lim \in BOOLEAN, spec \in FixedSpecs :
          Construct(i, lim, spec, IF lim THEN 1 ELSE 0, FALSE, FALSE)
    \/ AllBuilt(Pair) /\ \E i \in Pair : Read(i, FALSE)
    \/ AllBuilt(Pair) /\ \E i \in Pair : Pause(i)
    \/ AllBuilt(Pair) /\ \E i \in Pair, imm \in BOOLEAN : Resume(i, imm)
    \/ AllBuilt(Pair) /\ \E i \in Pair, spec \in FixedSpecs : SetDuration(i, spec)
    \/ AllBuilt(Pair) /\ \E i \in Pair : Stop(i)
    \/ AllBuilt(Pair) /\ \E i \in Pair : Dispose(i)
    \/ AllBuilt(Pair) /\ \E i \in Pair : Reset(i, FALSE)
    \/ AllBuilt(Pair) /\ \E i \in Pair, mt \in Limits : SetMaxTicks(i, mt)
    \/ AllBuilt(Pair) /\ \E m \in MemberSeqs : Sync(m)
    \/ AllBuilt(Pair) /\ Enable(FALSE)
    \/ AllBuilt(Pair) /\ Disable
    \/ AllBuilt(Pair) /\ \E h \in HandleIds : Fire(h)

SpecSync == InitWith(MaxCalls) /\ [][NextSync]_vars

\* Three instances for the leader scan: plain intervals with fixed or
\* producer durations, duration changes, and the controller's calls.
NextLeader ==
    \/ \E i \in Intervals, spec \in DurationSpecs : Construct(i, FALSE, spec, 0, FALSE, FALSE)
    \/ AllBuilt(Intervals) /\ \E i \in Intervals, spec \in FixedSpecs : SetDuration(i, spec)
    \/ AllBuilt(Intervals) /\ \E d \in Durations : SetDelay(d)
    \/ AllBuilt(Intervals) /\ \E m \in MemberSeqs : Sync(m)
    \/ AllBuilt(Intervals) /\ SyncEmpty
    \/ AllBuilt(Intervals) /\ Enable(FALSE)
    \/ AllBuilt(Intervals) /\ Disable
    \/ AllBuilt(Intervals) /\ \E h \in HandleIds : Fire(h)

SpecLeader == InitWith(MaxLeaderCalls) /\ [][NextLeader]_vars

\* Two instances and a controller without a limit on the number of calls:
\* reads, pause, resume and the controller's calls, the timers firing in between.
NextGroup ==
    \/ \E i \in Pair, lim \in BOOLEAN, spec \in FixedSpecs :
          Construct(i, lim, spec, IF lim THEN 1 ELSE 0, FALSE, FALSE)
    \/ AllBuilt(Pair) /\ \E i \in Pair : Read(i, FALSE)
    \/ AllBuilt(Pair) /\ \E i \in Pair : Pause(i)
    \/ AllBuilt(Pair) /\ \E i \in Pair : Resume(i, FALSE)
    \/ AllBuilt(Pair) /\ \E m \in MemberSeqs : Sync(m)
    \/ AllBuilt(Pair) /\ SyncEmpty
    \/ AllBuilt(Pair) /\ Enable(FALSE)
    \/ AllBuilt(Pair) /\ Disable
    \/ AllBuilt(Pair) /\ \E h \in HandleIds : Fire(h)

SpecGroup == Init /\ [][NextGroup]_vars

\* Two instances and a controller, LimitedIntervals with any limit among
\* them: reads, reset and the controller's calls, the timers firing in
\* between.
NextLimitedGroup ==
    \/ \E i \in Pair, lim \in BOOLEAN, spec \in FixedSpecs, mt \in 1..MaxLimit :
          Construct(i, lim, spec, IF lim THEN mt ELSE 0, FALSE, FALSE)
    \/ AllBuilt(Pair) /\ \E i \in Pair : Read(i, FALSE)
    \/ AllBuilt(Pair) /\ \E i \in Pair : Reset(i, FALSE)
    \/ AllBuilt(Pair) /\ \E m \in MemberSeqs : Sync(m)
    \/ AllBuilt(Pair) /\ Enable(FALSE)
    \/ AllBuilt(Pair) /\ Disable
    \/ AllBuilt(Pair) /\ \E h \in HandleIds : Fire(h)

SpecLimitedGroup == Init /\ [][NextLimitedGroup]_vars

\* One plain Interval whose duration is a number or a function of a reactive
\* value: duration writes of both kinds, changes of the reactive value, reads
\* inside and outside a tracking context, pause, resume, stop and dispose.
NextDuration ==
    \/ \E i \in Solo, spec \in SignedSpecs, imm \in BOOLEAN, tr \in BOOLEAN :
          Construct(i, FALSE, spec, 0, imm, tr)
    \/ \E i \in Solo, tr \in BOOLEAN : Read(i, tr)
    \/ \E i \in Solo : Pause(i)
    \/ \E i \in Solo, imm \in BOOLEAN : Resume(i, imm)
    \/ \E i \in Solo, spec \in SignedSpecs : SetDuration(i, spec)
    \/ \E d \in SignedDurations : SetDelay(d)
    \/ \E i \in Solo : Stop(i)
    \/ \E i \in Solo : Dispose(i)
    \/ \E i \in Solo : Teardown(i)
    \/ \E h \in HandleIds : Fire(h)

SpecDuration == Init /\ [][NextDuration]_vars

\* ---------------------------------------------------------------- claims
OwnTimers(i) == {h \in DOMAIN timers : timers[h].owner = i}
Starters == {"read", "remainingTicks", "reset", "reset_completed", "enable",
             "construct_immediate"}

\* C1: constructing without immediate creates no timer and none exists until
\* current/tickCount is first read; that first read creates exactly one; with
\* immediate: true exactly one is created during construction.
C1_LazyStart ==
    [][\A i \in Solo :
        /\ (last'.op = "construct" /\ last'.i = i) =>
              (host'.set = 0 /\ OwnTimers(i)' = {} /\ ~derived'[i].valid)
        /\ (last'.op = "construct_immediate" /\ last'.i = i) =>
              (host'.set = 1 /\ Cardinality(OwnTimers(i)') = 1 /\ derived'[i].valid)
        /\ (~derived[i].valid /\ last'.op \notin Starters) =>
              (host'.set = 0 /\ OwnTimers(i)' = {} /\ ~derived'[i].valid)
        /\ (~derived[i].valid /\ last'.op = "read" /\ last'.i = i) =>
              (host'.set = 1 /\ Cardinality(OwnTimers(i)') = 1)
    ]_vars

C1_Witness ==
    /\ last.op = "read"
    /\ host = [set |-> 1, cleared |-> 0]
    /\ version[1] = 0
    /\ Cardinality(OwnTimers(1)) = 1

\* C2: tickCount starts at 0, is 0 when an instance is constructed, and no
\* operation of the instance or the controller and no timer firing decreases it.
C2_TickMonotone ==
    [][\A i \in Pair :
        /\ last.op = "init" => tick_count[i] = 0
        /\ (last'.op = "construct" /\ last'.i = i) => tick_count'[i] = 0
        /\ tick_count'[i] >= tick_count[i]
    ]_vars

C2_Witness ==
    /\ last.op = "reset_completed"
    /\ tick_count[last.i] >= 1
    /\ completion_baseline[last.i] = tick_count[last.i]

\* C3: while isActive is false no timer firing changes tickCount or notifies;
\* resume() keeps the frozen count and makes the instance active; every
\* firing while the instance is active (and not a completed LimitedInterval)
\* counts exactly one tick, and notifies when an observer is subscribed.
C3_PausedFrozen ==
    [][\A i \in Solo :
        /\ (last'.op = "fire" /\ ~is_active[i]) =>
              (tick_count'[i] = tick_count[i] /\ i \notin notified')
        /\ (last'.op = "resume" /\ last'.i = i) =>
              (tick_count'[i] = tick_count[i] /\ is_active'[i])
        /\ (last'.op = "fire" /\ is_active[i] /\ ~is_completed[i]) =>
              (tick_count'[i] = tick_count[i] + 1 /\ (i \in notified' <=> has_update[i]))
    ]_vars

C3_Witness ==
    /\ last.op = "fire"
    /\ ~is_active[1]
    /\ ~limited[1]
    /\ has_update[1]
    /\ tick_count[1] >= 1
    /\ ~stop_called[1]

Others(i) == Intervals \ {i}

LimitedLive(i) == Live(i) /\ limited[i]
SinceBaseline(i) == tick_count[i] - completion_baseline[i]

\* C5: the counted tick that brings the ticks since the baseline to maxTicks
\* sets isCompleted and clears isActive in that same step, remainingTicks
\* being 0 afterwards; a tick that leaves them below maxTicks leaves
\* isCompleted false.
C5_CompletesOnNth ==
    [][\A i \in Solo :
        (LimitedLive(i) /\ tick_count'[i] = tick_count[i] + 1) =>
            /\ SinceBaseline(i)' = max_ticks'[i] =>
                  (is_completed'[i] /\ ~is_active'[i] /\ remainingTicks(i)' = 0)
            /\ SinceBaseline(i)' < max_ticks'[i] => ~is_completed'[i]
    ]_vars

\* C6: once a LimitedInterval is completed, a timer firing changes neither
\* its tickCount nor isCompleted.
C6_CompletedFrozen ==
    [][\A i \in Solo :
        (LimitedLive(i) /\ is_completed[i] /\ last'.op = "fire") =>
            (tick_count'[i] = tick_count[i] /\ is_completed'[i])
    ]_vars

\* C7: in every state of a LimitedInterval, isCompleted implies ~isActive.
C7_CompletedInactive ==
    \A i \in Solo : (LimitedLive(i) /\ is_completed[i]) => ~is_active[i]

\* C8: remainingTicks is maxTicks minus the ticks counted since the baseline
\* when that is positive and 0 otherwise, and always lies in 0..maxTicks (the
\* baseline never exceeds tickCount).
C8_RemainingRange ==
    \A i \in Solo : LimitedLive(i) =>
        /\ remainingTicks(i) \in 0..max_ticks[i]
        /\ completion_baseline[i] \in 0..tick_count[i]
        /\ SinceBaseline(i) >= max_ticks[i] => remainingTicks(i) = 0
        /\ SinceBaseline(i) < max_ticks[i] =>
              remainingTicks(i) + SinceBaseline(i) = max_ticks[i]

C8_Witness ==
    /\ last.op = "remainingTicks"
    /\ LimitedLive(1)
    /\ SinceBaseline(1) > max_ticks[1]
    /\ remainingTicks(1) = 0

\* C9: reset() on a completed LimitedInterval clears isCompleted, sets
\* isActive, leaves tickCount unchanged and moves the baseline to it, so that
\* remainingTicks equals maxTicks and every timer the instance then has runs
\* the limited handler; and a tick counted by the limited handler completes
\* the instance exactly when the ticks since the baseline have reached
\* maxTicks.
C9_ResetCompleted ==
    [][\A i \in Solo :
        /\ (last'.op = "reset_completed" /\ last'.i = i) =>
              /\ is_completed[i] /\ ~is_completed'[i]
              /\ is_active'[i]
              /\ tick_count'[i] = tick_count[i]
              /\ completion_baseline'[i] = tick_count[i]
              /\ remainingTicks(i)' = max_ticks[i]
              /\ \A h \in OwnTimers(i)' : timers'[h].fn = LimitedFn(i)
        /\ (/\ LimitedLive(i)
            /\ tick_count'[i] = tick_count[i] + 1
            /\ \/ last'.op = "fire" /\ timers[last'.h].fn = LimitedFn(i)
               \/ last'.op = "resume_immediate") =>
              (is_completed'[i] <=> SinceBaseline(i)' >= max_ticks[i])
    ]_vars

C9_Witness ==
    /\ last.op = "reset_completed"
    /\ tick_count[1] >= 2
    /\ max_ticks[1] = 2
    /\ remainingTicks(1) = 2
    /\ Cardinality(OwnTimers(1)) = 1

\* The leader is the first member of the list whose duration no member undercuts.
IsFirstMin(m, l) ==
    \E k \in DOMAIN m :
        /\ m[k] = l
        /\ \A j \in DOMAIN m : Duration(m[j]) >= Duration(l)
        /\ \A j \in DOMAIN m : j < k => Duration(m[j]) > Duration(l)

LeaderIsFirstMin == IsFirstMin(ctl.intervals, ctl.leader)

\* C10: sync() makes the leader the earliest-listed member with the minimum
\* resolved duration at the time of the call, and controller.leader is that
\* member in every later state, whatever enable(), disable() and duration
\* changes follow.
C10_LeaderFixed ==
    [][/\ last'.op = "sync" => LeaderIsFirstMin'
       /\ ctl.exists => (ctl'.exists /\ ctl'.leader = ctl.leader
                                     /\ ctl'.intervals = ctl.intervals)
    ]_vars

C10_Witness ==
    /\ ctl.exists
    /\ last.op = "disable"
    /\ Len(ctl.intervals) = NumIntervals
    /\ ctl.leader # ctl.intervals[1]
    /\ \E j \in Members : Duration(j) < Duration(ctl.leader)

\* A firing of a timer owned by instance i is the step being taken.
FiringOf(i) == last'.op = "fire" /\ last'.h \in DOMAIN timers /\ timers[last'.h].owner = i

Enabled == ctl.exists /\ ctl.sync_active
Followers == Members \ {ctl.leader}
Counting(j) == is_active[j] /\ ~is_completed[j]

\* C11: while the controller is enabled and the leader is active, every firing
\* of a timer of the leader adds exactly one to the tickCount of every active,
\* non-completed member.
C11_LeaderFiringTicksAll ==
    [][(Enabled /\ is_active[ctl.leader] /\ FiringOf(ctl.leader)) =>
          \A j \in Members : Counting(j) => tick_count'[j] = tick_count[j] + 1
    ]_vars

\* C12: while the controller is enabled, a firing of a timer of a non-leader
\* member changes no member's tickCount.
C12_FollowerTimersSilent ==
    [][\A i \in Pair :
        (Enabled /\ i \in Followers /\ FiringOf(i)) => tick_count' = tick_count
    ]_vars

\* C13: while the controller is enabled and the leader is inactive, no timer
\* firing changes any member's tickCount.
C13_LeaderInactiveFreezes ==
    [][(Enabled /\ ~is_active[ctl.leader] /\ last'.op = "fire") =>
          \A j \in Members : tick_count'[j] = tick_count[j]
    ]_vars

\* C14: while the controller is enabled and the leader is active, a firing of
\* a timer of the leader counts nothing for a paused or completed follower and
\* exactly one tick for the leader and every other active member.
C14_OwnGating ==
    [][(Enabled /\ is_active[ctl.leader] /\ FiringOf(ctl.leader)) =>
          \A j \in Members :
              /\ (j \in Followers /\ ~Counting(j)) => tick_count'[j] = tick_count[j]
              /\ Counting(j) => tick_count'[j] = tick_count[j] + 1
    ]_vars

\* Every member's timer has been (re)created since its generation last changed.
Restored == ctl.exists /\ ~ctl.sync_active /\ \A i \in Members : ~Stale(i)

\* C15: with the controller disabled, a read of a member leaves it exactly one
\* timer, created with the member's own duration and original handler; and
\* once every member has been read since disable(), a firing of a member's
\* timer is a firing of such a timer: it counts one tick for that member when
\* it is active (and not completed) and changes no other member's tickCount.
C15_RestoredIndependent ==
    [][\A i \in Pair :
        /\ (ctl.exists /\ ~ctl.sync_active /\ i \in Members
               /\ last'.op = "read" /\ last'.i = i) =>
              /\ OwnTimers(i)' = {interval_id'[i]}
              /\ timers'[interval_id'[i]].fn = ctl.original_run_funcs[i]
              /\ timers'[interval_id'[i]].delay = Duration(i)
        /\ (Restored /\ i \in Members /\ FiringOf(i)) =>
              /\ timers[last'.h].fn = ctl.original_run_funcs[i]
              /\ timers[last'.h].delay = Duration(i)
              /\ \A j \in Others(i) : tick_count'[j] = tick_count[j]
              /\ Counting(i) => tick_count'[i] = tick_count[i] + 1
    ]_vars

C15_Witness ==
    /\ Restored
    /\ last.op = "fire"
    /\ Len(ctl.intervals) = 2
    /\ version[ctl.leader] = 2
    /\ \A i \in Members : Cardinality(OwnTimers(i)) = 1
    /\ \E j \in Followers : last.i = j /\ tick_count[j] = 1 /\ tick_count[ctl.leader] = 0

\* C16: with the controller disabled, a firing of one instance's timer
\* changes no other instance's tickCount.
C16_NoCrossTickAfterDisable ==
    [][\A i \in Pair :
        (ctl.exists /\ ~ctl.sync_active /\ FiringOf(i)) =>
            \A j \in Others(i) : tick_count'[j] = tick_count[j]
    ]_vars

\* C17: stop() leaves the instance without a live timer, with isActive false
\* and isStopped true, creates no timer and keeps tickCount; a stop() directly
\* after a stop() changes nothing of the instance and clears nothing.
C17_StopIdempotent ==
    [][\A i \in Solo :
        (last'.op = "stop" /\ last'.i = i) =>
            /\ OwnTimers(i)' = {}
            /\ ~is_active'[i]
            /\ isStopped(i)'
            /\ tick_count'[i] = tick_count[i]
            /\ host'.set = 0
            /\ host'.cleared = Cardinality(OwnTimers(i))
            /\ (last.op = "stop" /\ last.i = i) =>
                  (UNCHANGED <<ivars, timers>> /\ host' = NoCalls)
    ]_vars

C17_Witness ==
    /\ last.op = "stop"
    /\ host = [set |-> 0, cleared |-> 1]
    /\ tick_count[1] >= 1
    /\ isStopped(1) /\ ~is_active[1] /\ OwnTimers(1) = {}

\* C18: once stop() has been called on an instance it has no live timer and
\* isStopped is true, in every later state.
C18_StoppedForGood ==
    \A i \in Solo : stop_called[i] => (OwnTimers(i) = {} /\ isStopped(i))

\* C19: once stop() has been called on an instance no step increases its
\* tickCount.
C19_NoTickAfterStop ==
    [][\A i \in Solo : stop_called[i] => tick_count'[i] = tick_count[i]]_vars

\* C20: isStopped is true exactly when stop() has been called on the instance.
C20_StoppedIffStopCalled ==
    \A i \in Solo : Live(i) => (isStopped(i) <=> stop_called[i])

\* C21: isActive and isStopped are never both true.
C21_ActiveStoppedExclusive ==
    \A i \in Solo : Live(i) => ~(is_active[i] /\ isStopped(i))

DurationWrites == {"set_duration", "set_duration_fn"}
WrittenTo(i) == last'.op \in DurationWrites /\ last'.i = i

\* C22: a duration write replaces the duration spec: after writing a number
\* the duration is that number and later changes of the reactive value no
\* longer move it; after writing a function the duration follows the reactive
\* value; the write leaves tickCount and isActive unchanged.
C22_DurationWrite ==
    [][\A i \in Solo :
        /\ WrittenTo(i) =>
              /\ tick_count'[i] = tick_count[i]
              /\ is_active'[i] = is_active[i]
        /\ (WrittenTo(i) /\ last'.op = "set_duration") =>
              /\ duration_input'[i] = Fixed(last'.h)
              /\ Duration(i)' = last'.h
        /\ (WrittenTo(i) /\ last'.op = "set_duration_fn") =>
              /\ duration_input'[i] = Producer
              /\ Duration(i)' = delay'
        /\ (Live(i) /\ last'.op = "set_delay" /\ ~duration_input[i].fn) =>
              Duration(i)' = Duration(i)
        /\ (Live(i) /\ last'.op = "set_delay" /\ duration_input[i].fn) =>
              (Duration(i)' = delay' /\ Duration(i)' # Duration(i))
    ]_vars

C22_Witness ==
    /\ last.op = "set_delay"
    /\ Live(1)
    /\ version[1] >= 1
    /\ ~duration_input[1].fn
    /\ Duration(1) # delay
    /\ tick_count[1] >= 1

\* The generation of instance i has changed since its timer was created.
Outdated(i) == derived[i].valid /\ derived[i].version # version[i]

\* C23: duration writes make no setInterval or clearInterval call and add one
\* to the generation each; the next read of a started instance whose timer is
\* live clears that timer (one live timer cleared) and creates exactly one
\* timer, with the duration resolved from the last written spec, leaving
\* tickCount unchanged.
C23_OneRecreation ==
    [][\A i \in Solo :
        /\ WrittenTo(i) =>
              (host' = NoCalls /\ version'[i] = version[i] + 1 /\ derived'[i] = derived[i])
        /\ (last'.op = "read" /\ last'.i = i /\ Outdated(i)
               /\ interval_id[i] \in DOMAIN timers) =>
              /\ host' = [set |-> 1, cleared |-> 1]
              /\ OwnTimers(i)' = {interval_id'[i]}
              /\ timers'[interval_id'[i]].delay = Duration(i)
              /\ timers'[interval_id'[i]].fn = run_func[i]
              /\ tick_count'[i] = tick_count[i]
              /\ ~Outdated(i)'
    ]_vars

C23_Witness ==
    /\ last.op = "read"
    /\ host = [set |-> 1, cleared |-> 1]
    /\ version[1] = MaxVersion
    /\ derived[1].version = MaxVersion
    /\ Cardinality(OwnTimers(1)) = 1
    /\ \A h \in OwnTimers(1) : timers[h].delay = 1 /\ Duration(1) = 1

UpToDate(i) ==
    /\ derived[i].valid
    /\ derived[i].version = version[i]
    /\ derived[i].duration = Duration(i)

\* C25: a read of an instance whose generation and resolved duration are those
\* its timer was created with makes no setInterval or clearInterval call and
\* leaves the timers, the handle and the cached derived unchanged.
C25_ReadsKeepTimer ==
    [][\A i \in Solo :
        (last'.op = "read" /\ last'.i = i /\ UpToDate(i)) =>
            /\ host' = NoCalls
            /\ timers' = timers
            /\ interval_id'[i] = interval_id[i]
            /\ derived'[i] = derived[i]
            /\ tick_count'[i] = tick_count[i]
    ]_vars

C25_Witness ==
    /\ last.op = "read"
    /\ host = NoCalls
    /\ version[1] >= 1
    /\ Cardinality(OwnTimers(1)) = 1
    /\ tick_count[1] >= 1

\* C26: pause() and resume() without the immediate flag make no setInterval or
\* clearInterval call and leave every timer, the handle, the cached derived,
\* the generation and tickCount as they were, on a started and on a
\* never-started instance alike; the timer that was live before them is the
\* one whose firings are counted afterwards, counted exactly when the instance
\* is active.
C26_PauseResumeKeepTimer ==
    [][\A i \in Solo :
        /\ (last'.op \in {"pause", "resume"} /\ last'.i = i) =>
              /\ host' = NoCalls
              /\ timers' = timers
              /\ interval_id'[i] = interval_id[i]
              /\ derived'[i] = derived[i]
              /\ version'[i] = version[i]
              /\ tick_count'[i] = tick_count[i]
              /\ phase'[i] = phase[i]
              /\ is_active'[i] = (last'.op = "resume")
        /\ (FiringOf(i) /\ timers[last'.h].fn = BaseFn(i)) =>
              /\ timers' = timers
              /\ tick_count'[i] = tick_count[i] + (IF is_active[i] THEN 1 ELSE 0)
    ]_vars

\* resume() has just acted on a started, plain instance that has counted a
\* tick: its timer, created by the first read, is still the live one.
C26_Witness ==
    /\ last.op = "resume"
    /\ ~limited[1]
    /\ is_active[1]
    /\ version[1] = 0
    /\ interval_id[1] \in DOMAIN timers
    /\ timers[interval_id[1]].fn = BaseFn(1)
    /\ tick_count[1] >= 1

\* C27: a maxTicks value <= 0 is rejected by the LimitedInterval constructor,
\* whatever the duration and the immediate option, and by the maxTicks setter;
\* a value > 0 is accepted by both; a rejected assignment leaves maxTicks,
\* isCompleted, isActive and tickCount unchanged.
C27_NonPositiveRejected ==
    [][\A i \in Solo :
        /\ (last'.op \in {"construct", "construct_immediate"} /\ last'.i = i /\ limited'[i]) =>
              /\ (last'.h <= 0) <=> (phase'[i] = "failed")
              /\ (last'.h > 0) <=> (phase'[i] = "live" /\ max_ticks'[i] = last'.h)
        /\ (last'.op \in {"set_maxTicks", "set_maxTicks_throw"} /\ last'.i = i) =>
              /\ (last'.h <= 0) <=> (last'.op = "set_maxTicks_throw")
              /\ (last'.op = "set_maxTicks_throw") =>
                    /\ max_ticks'[i] = max_ticks[i]
                    /\ is_completed'[i] = is_completed[i]
                    /\ is_active'[i] = is_active[i]
                    /\ tick_count'[i] = tick_count[i]
              /\ (last'.op = "set_maxTicks") => max_ticks'[i] = last'.h
    ]_vars

\* The setter has just rejected 0 on a completed instance, which is still
\* completed with its limit in place.
C27_Witness ==
    /\ last.op = "set_maxTicks_throw"
    /\ last.h = 0
    /\ limited[1]
    /\ is_completed[1]
    /\ max_ticks[1] = MaxLimit
    /\ tick_count[1] >= MaxLimit

\* C28: sync() with no member throws and leaves no controller behind; sync()
\* with one or more members returns a controller that is not enabled, keeps
\* the handlers the members had as the originals, and changes no member's
\* handler, tickCount, generation or timer.
C28_SyncConstruction ==
    [][/\ (last'.op = "sync_throw") =>
              /\ ~ctl'.exists
              /\ host' = NoCalls
              /\ UNCHANGED <<ivars, timers>>
       /\ (last'.op = "sync") =>
              /\ ctl'.exists
              /\ ~ctl'.sync_active
              /\ Len(ctl'.intervals) >= 1
              /\ \A i \in {ctl'.intervals[k] : k \in DOMAIN ctl'.intervals} :
                    ctl'.original_run_funcs[i] = run_func[i]
              /\ host' = NoCalls
              /\ run_func' = run_func
              /\ tick_count' = tick_count
              /\ version' = version
              /\ timers' = timers
              /\ UNCHANGED ivars
    ]_vars

\* sync() has just returned a controller over two started members that have
\* both counted ticks on their own timers.
C28_Witness ==
    /\ last.op = "sync"
    /\ ctl.exists
    /\ ~ctl.sync_active
    /\ Len(ctl.intervals) = 2
    /\ \A i \in Pair : OwnTimers(i) # {} /\ tick_count[i] >= 1

\* C29: enable() on an enabled controller and disable() on a controller that
\* is not enabled change nothing: no member's handler, generation, timer or
\* tickCount, nor the controller; and no firing, before or after a repeated
\* enable(), adds more than one to any member's tickCount.
C29_RepeatedCallsNoOp ==
    [][/\ (last'.op \in {"enable", "enable_noop"} /\ ctl.exists /\ ctl.sync_active) =>
              /\ last'.op = "enable_noop"
              /\ host' = NoCalls
              /\ UNCHANGED <<ivars, timers, ctl>>
       /\ (last'.op \in {"disable", "disable_noop"} /\ ctl.exists /\ ~ctl.sync_active) =>
              /\ last'.op = "disable_noop"
              /\ host' = NoCalls
              /\ UNCHANGED <<ivars, timers, ctl>>
       /\ (last'.op = "fire") =>
              \A i \in Pair : tick_count'[i] <= tick_count[i] + 1
    ]_vars

\* enable() has just been called on an enabled controller of two members
\* whose leader runs the leader handler on its one timer and has ticked both.
C29_Witness ==
    /\ last.op = "enable_noop"
    /\ Enabled
    /\ Len(ctl.intervals) = 2
    /\ Cardinality(OwnTimers(ctl.leader)) = 1
    /\ \A h \in OwnTimers(ctl.leader) : timers[h].fn = LeaderFn
    /\ \A i \in Pair : tick_count[i] >= 1

\* C30: dispose(), and the teardown that runs when the last tracked reader
\* goes away, clear the instance's live timer, which is then no timer of the
\* host any more, create none, and leave isStopped, isActive and tickCount
\* as they were.
C30_CleanupClearsOnly ==
    [][\A i \in Solo :
        (/\ last'.i = i
         /\ \/ last'.op = "dispose"
            \/ last'.op = "teardown" /\ subscribers[i] = 1) =>
            /\ OwnTimers(i)' = {}
            /\ interval_id[i] \notin DOMAIN timers'
            /\ host' = [set |-> 0, cleared |-> Cardinality(OwnTimers(i))]
            /\ isStopped(i)' = isStopped(i)
            /\ interval_id'[i] = interval_id[i]
            /\ stop_called'[i] = stop_called[i]
            /\ is_active'[i] = is_active[i]
            /\ tick_count'[i] = tick_count[i]
    ]_vars

\* A cleanup has just cleared the live timer of an active instance that has
\* counted a tick: the instance is active, not stopped, and has no timer.
C30_Witness ==
    /\ last.op \in {"dispose", "teardown"}
    /\ host = [set |-> 0, cleared |-> 1]
    /\ OwnTimers(1) = {}
    /\ ~isStopped(1)
    /\ is_active[1]
    /\ tick_count[1] >= 1

\* C31: every firing of a timer of a LimitedInterval, the one created during
\* an immediate construction included, does what the limit-checking handler
\* does: it counts a tick only while the instance is active and not
\* completed, and the tick that reaches maxTicks sets isCompleted and clears
\* isActive.
C31_ImmediateEnforcesLimit ==
    [][\A i \in Solo :
        (LimitedLive(i) /\ FiringOf(i)) =>
            LET s == run_func_limited(Fields, i) IN
                /\ tick_count'[i] = s.tc[i]
                /\ is_completed'[i] = s.done[i]
                /\ is_active'[i] = s.act[i]
    ]_vars

\* C32: a LimitedInterval counts no tick while the ticks counted since the
\* baseline are maxTicks or more (remainingTicks is 0), also after maxTicks
\* has been lowered to or below the ticks already counted.
C32_NoTickWithoutRemaining ==
    [][\A i \in Solo :
        (LimitedLive(i) /\ SinceBaseline(i) >= max_ticks[i]) =>
            tick_count'[i] = tick_count[i]
    ]_vars

\* C33: a successful maxTicks write stores the new limit and sets isCompleted
\* to false, leaving completionBaseline, tickCount, isActive and the timers
\* unchanged, so remainingTicks becomes max(0, newMax - ticks since the
\* baseline); an inactive LimitedInterval becomes active again only by
\* resume() or reset().
C33_MaxTicksWrite ==
    [][\A i \in Solo :
        /\ (last'.op = "set_maxTicks" /\ last'.i = i) =>
              /\ max_ticks'[i] = last'.h
              /\ ~is_completed'[i]
              /\ completion_baseline'[i] = completion_baseline[i]
              /\ tick_count'[i] = tick_count[i]
              /\ is_active'[i] = is_active[i]
              /\ timers' = timers
              /\ remainingTicks(i)' = Max(0, last'.h - SinceBaseline(i))
        /\ (LimitedLive(i) /\ ~is_active[i] /\ is_active'[i]) =>
              last'.op \in {"resume", "resume_immediate", "reset", "reset_completed"}
    ]_vars

\* The limit of an instance that had counted its one allowed tick has just
\* been raised: it is not completed, still paused, with one tick remaining.
C33_Witness ==
    /\ last.op = "set_maxTicks"
    /\ last.h = 2
    /\ limited[1]
    /\ ~stop_called[1]
    /\ ~is_completed[1]
    /\ ~is_active[1]
    /\ SinceBaseline(1) = 1
    /\ remainingTicks(1) = 1
    /\ OwnTimers(1) # {}

\* C34: after resume(true) on a started Interval, a timer that resume(true)
\* did not create (one running on the phase from before the call) counts no
\* tick when it fires.
C34_OldPhaseSilent ==
    [][\A i \in Solo :
        (/\ last.op = "resume_immediate"
         /\ last.i = i
         /\ host.set = 0
         /\ FiringOf(i)) =>
            tick_count'[i] = tick_count[i]
    ]_vars

\* C35: every setInterval call passes the duration resolved at that moment as
\* it is, zero and negative values included; and when the value of a producer
\* duration differs from the one the live timer was created with, the next
\* read clears that timer and creates one with the new value and the
\* instance's current handler.
C35_DurationPassedThrough ==
    [][\A i \in Solo :
        /\ (host'.set = 1 /\ last'.i = i) =>
              /\ interval_id'[i] \in DOMAIN timers'
              /\ timers'[interval_id'[i]].owner = i
              /\ timers'[interval_id'[i]].delay = Duration(i)'
              /\ duration_input'[i].fn => timers'[interval_id'[i]].delay = delay'
              /\ ~duration_input'[i].fn =>
                    timers'[interval_id'[i]].delay = duration_input'[i].val
        /\ (/\ last'.op = "read"
            /\ last'.i = i
            /\ duration_input[i].fn
            /\ derived[i].valid
            /\ derived[i].duration # delay
            /\ interval_id[i] \in DOMAIN timers) =>
              /\ host' = [set |-> 1, cleared |-> 1]
              /\ OwnTimers(i)' = {interval_id'[i]}
              /\ timers'[interval_id'[i]].delay = delay
              /\ timers'[interval_id'[i]].fn = run_func[i]
              /\ derived'[i].duration = delay
    ]_vars

\* A read has just replaced the timer of an instance whose producer now
\* returns a negative value: the new timer has that negative period.
C35_Witness ==
    /\ last.op = "read"
    /\ host = [set |-> 1, cleared |-> 1]
    /\ duration_input[1].fn
    /\ delay = -1
    /\ version[1] = 0
    /\ Cardinality(OwnTimers(1)) = 1
    /\ timers[interval_id[1]].delay = -1
    /\ tick_count[1] >= 1

\* C36: disable() makes no setInterval or clearInterval call and changes no
\* member's tickCount, isActive or isCompleted; a member other than the
\* leader that has no live timer gets one only by a read of that member's
\* current or tickCount (reset() reads tickCount).
C36_DisableFrame ==
    [][/\ (last'.op = "disable") =>
              /\ host' = NoCalls
              /\ timers' = timers
              /\ tick_count' = tick_count
              /\ is_active' = is_active
              /\ is_completed' = is_completed
       /\ \A j \in Pair :
              (/\ ctl.exists
               /\ j \in Followers
               /\ OwnTimers(j) = {}
               /\ OwnTimers(j)' # {}) =>
                  (last'.op \in {"read", "reset", "reset_completed"} /\ last'.i = j)
    ]_vars

\* disable() has just been called on a controller whose leader, a
\* LimitedInterval, completed during the synchronisation, and whose other
\* member was ticked by it and has no timer of its own.
C36_Witness ==
    /\ last.op = "disable"
    /\ ctl.exists
    /\ ~ctl.sync_active
    /\ limited[ctl.leader]
    /\ is_completed[ctl.leader]
    /\ ~is_active[ctl.leader]
    /\ \E j \in Followers : OwnTimers(j) = {} /\ tick_count[j] >= 1

\* The live timer of the leader runs the handler enable() installed.
LeaderBroadcasts ==
    /\ Enabled
    /\ interval_id[ctl.leader] \in DOMAIN timers
    /\ timers[interval_id[ctl.leader]].fn = LeaderFn

\* C37: reset() on the LimitedInterval leader of an enabled controller leaves
\* the leader active, not completed, with no tick counted since the baseline
\* and with a live timer that runs the broadcasting handler; every firing of
\* that timer while the leader is active adds one tick to each member that is
\* active and not completed and none to the others, the leader completing
\* again exactly when its ticks since the baseline reach maxTicks; while the
\* leader is inactive its firings tick no member; the leader's timer keeps
\* running that handler for as long as the controller stays enabled.
C37_ResetResumesSync ==
    [][/\ (/\ last'.op \in {"reset", "reset_completed"}
           /\ Enabled
           /\ last'.i = ctl.leader) =>
              /\ is_active'[ctl.leader]
              /\ ~is_completed'[ctl.leader]
              /\ SinceBaseline(ctl.leader)' = 0
              /\ LeaderBroadcasts'
       /\ (/\ LeaderBroadcasts
           /\ limited[ctl.leader]
           /\ last'.op = "fire"
           /\ last'.h = interval_id[ctl.leader]) =>
              IF is_active[ctl.leader]
              THEN /\ \A j \in Members :
                        tick_count'[j] = tick_count[j] + (IF Counting(j) THEN 1 ELSE 0)
                   /\ Counting(ctl.leader) =>
                        (is_completed'[ctl.leader] <=>
                            SinceBaseline(ctl.leader)' >= max_ticks[ctl.leader])
              ELSE tick_count' = tick_count
       /\ (LeaderBroadcasts /\ Enabled') => LeaderBroadcasts'
    ]_vars

\* After a reset() of the completed leader, its firings have ticked both
\* members again and the leader has completed a second time.
C37_Witness ==
    /\ last.op = "fire"
    /\ LeaderBroadcasts
    /\ limited[ctl.leader]
    /\ completion_baseline[ctl.leader] >= 1
    /\ is_completed[ctl.leader]
    /\ SinceBaseline(ctl.leader) = max_ticks[ctl.leader]
    /\ Followers # {}
    /\ \A j \in Followers : tick_count[j] = tick_count[ctl.leader] /\ tick_count[j] >= 2

\* C38: while the controller is enabled, a firing of a timer of the leader
\* that finds the leader active runs the saved handler of every member,
\* whatever the member's position in the list and also when the leader's own
\* handler completes and pauses the leader during that firing: each member
\* ends the step as its saved handler alone leaves it.
C38_WholeListRuns ==
    [][(/\ Enabled
        /\ FiringOf(ctl.leader)
        /\ is_active[ctl.leader]) =>
            \A k \in DOMAIN ctl.intervals :
                LET j == ctl.intervals[k]
                    s == call_original(Fields, ctl.original_run_funcs[j])
                IN /\ tick_count'[j] = s.tc[j]
                   /\ is_active'[j] = s.act[j]
                   /\ is_completed'[j] = s.done[j]
    ]_vars

\* C39: in every state each instance has at most one live timer, the one its
\* #interval_id names, and every live timer belongs to a constructed instance.
C39_AtMostOneTimer ==
    /\ \A i \in Intervals :
          /\ Cardinality(OwnTimers(i)) <= 1
          /\ OwnTimers(i) \subseteq {interval_id[i]}
    /\ \A h \in DOMAIN timers : phase[timers[h].owner] # "none"

\* An instance that was stopped and restarted, and whose timer was recreated
\* for the highest generation, has exactly one timer and counts ticks on it.
C39_Witness ==
    /\ last.op = "fire"
    /\ stop_called[1]
    /\ version[1] = MaxVersion
    /\ derived[1].version = MaxVersion
    /\ Cardinality(OwnTimers(1)) = 1
    /\ tick_count[1] >= 2

\* C40: an instance whose construction failed on maxTicks <= 0 has no live
\* timer.
C40_FailedLeavesNoTimer ==
    \A i \in Solo : phase[i] = "failed" => OwnTimers(i) = {}

====
